---- MODULE Spec2Model ----
(***************************************************************************)
(* Model of numberGuessing.cpp: a console number-guessing game with a      *)
(* CSV leaderboard.  Strings are sequences of one-character strings, so    *)
(* that formatting and parsing of the CSV are computed, not assumed.       *)
(* Times are integers: elapsed time in milliseconds; a score is an integer *)
(* number of 1/2000 points (the smallest step of the score formula when    *)
(* time is measured in milliseconds).                                      *)
(***************************************************************************)
EXTENDS Integers, Sequences, FiniteSets, TLC

VARIABLES
    pc,         \* position of main / choose_difficulty / play_game
    cfg,        \* GameConfig of the current session
    secret,     \* play_game: secret
    attempts,   \* play_game: attempts
    lowHint,    \* play_game: lowHint
    highHint,   \* play_game: highHint
    guess,      \* play_game: guess (last value returned by prompt_int)
    verdict,    \* last hint printed: "none", "high" or "low"
    outcome,    \* how the guess loop ended: "none", "Correct", "GaveUp", "AttemptsExhausted"
    revealed,   \* the number printed after "The number was", or NoNumber
    submitted,  \* number of non-zero guesses prompt_int has returned in this session
    elapsed,    \* play_game: elapsed, in milliseconds
    nameLine,   \* play_game: the line safe_getline returned at the name prompt
    res,        \* the Result play_game returned (NoResult before)
    file,       \* leaderboard.csv: [exists, lines]
    warned,     \* "Warning: could not write leaderboard file." was printed in this session
    entries,    \* what the last read_leaderboard returned
    stdinEof,   \* cin has reported end of input
    nread,      \* lines read from stdin that a prompt accepted
    exitStatus  \* "running"; "0" after exit(0) or return 0; "SIGABRT" after std::terminate

vars == <<pc, cfg, secret, attempts, lowHint, highHint, guess, verdict, outcome,
          revealed, submitted, elapsed, nameLine, res, file, warned, entries,
          stdinEof,
          nread, exitStatus>>

----------------------------------------------------------------------------
(* Bounds of the model *)

\* stdin holds at most this many lines that a prompt accepts before its end
\* of input (lines a prompt rejects are not counted)
MaxInputLines == 6

----------------------------------------------------------------------------
(* Program constants *)

CustomLo == -1000000
CustomHi == 1000000
MaxAttemptsHi == 1000000
LeaderboardLimit == 10
IntMax == 2147483647
IntMin == -IntMax - 1

----------------------------------------------------------------------------
(* Strings as sequences of characters *)

Digits == <<"0", "1", "2", "3", "4", "5", "6", "7", "8", "9">>

IsDigit(c) == \E i \in 1..10 : Digits[i] = c

DigitVal(c) == (CHOOSE i \in 1..10 : Digits[i] = c) - 1

IsSpace(c) == c \in {" ", "\t", "\r", "\n"}

RECURSIVE NatToString(_)
NatToString(n) ==
    IF n < 10 THEN <<Digits[n + 1]>>
    ELSE NatToString(n \div 10) \o <<Digits[(n % 10) + 1]>>

\* std::to_string(int) and operator<<(int)
to_string(n) == IF n < 0 THEN <<"-">> \o NatToString(-n) ELSE NatToString(n)

\* operator<< of a non-negative double under fixed << setprecision(2), the
\* value given in hundredths already rounded
Fixed2(h) ==
    NatToString(h \div 100) \o <<".">> \o <<Digits[((h % 100) \div 10) + 1], Digits[(h % 10) + 1]>>

\* milliseconds rounded to hundredths of a second
MsToHundredths(ms) == (ms + 5) \div 10

\* score units (1/2000) rounded to hundredths of a point
UnitsToHundredths(u) == (u + 10) \div 20

----------------------------------------------------------------------------
(* Parsing: std::stoi, std::stod, getline with a delimiter *)

\* index of the first character of s at or after i that is not white space
\* (Len(s) + 1 when there is none)
RECURSIVE SkipSpace(_, _)
SkipSpace(s, i) ==
    IF i > Len(s) THEN i
    ELSE IF IsSpace(s[i]) THEN SkipSpace(s, i + 1)
    ELSE i

\* index just after the run of digits of s that starts at i
RECURSIVE SkipDigits(_, _)
SkipDigits(s, i) ==
    IF i > Len(s) THEN i
    ELSE IF IsDigit(s[i]) THEN SkipDigits(s, i + 1)
    ELSE i

\* value of the digits s[i..j-1] (0 when the run is empty)
RECURSIVE DigitsValue(_, _, _)
DigitsValue(s, i, j) ==
    IF i >= j THEN 0
    ELSE DigitsValue(s, i, j - 1) * 10 + DigitVal(s[j - 1])

\* index just after an optional sign at i
SkipSign(s, i) == IF i <= Len(s) /\ s[i] \in {"-", "+"} THEN i + 1 ELSE i

IsNegative(s, i) == i <= Len(s) /\ s[i] = "-"

\* std::stoi(s): leading white space, an optional sign, then digits; what
\* follows the digits is ignored.  ok = FALSE stands for the exception
\* (invalid_argument without a digit; out_of_range for more digits than an
\* int can hold, taken here as more than nine).
Stoi(s) ==
    LET a == SkipSpace(s, 1)
        b == SkipSign(s, a)
        c == SkipDigits(s, b)
    IN  IF c = b \/ c - b > 9 THEN [ok |-> FALSE, val |-> 0]
        ELSE [ok |-> TRUE,
              val |-> IF IsNegative(s, a) THEN 0 - DigitsValue(s, b, c)
                      ELSE DigitsValue(s, b, c)]

\* std::stod(s), the value in hundredths: leading white space, an optional
\* sign, digits with an optional fraction (digits after the second decimal
\* are dropped).  ok = FALSE stands for the exception.
Stod(s) ==
    LET a == SkipSpace(s, 1)
        b == SkipSign(s, a)
        c == SkipDigits(s, b)
        hasDot == c <= Len(s) /\ s[c] = "."
        d == IF hasDot THEN SkipDigits(s, c + 1) ELSE c
        nfrac == IF hasDot THEN d - (c + 1) ELSE 0
        frac == IF nfrac = 0 THEN 0
                ELSE IF nfrac = 1 THEN DigitVal(s[c + 1]) * 10
                ELSE DigitVal(s[c + 1]) * 10 + DigitVal(s[c + 2])
        mag == DigitsValue(s, b, c) * 100 + frac
    IN  IF (c = b /\ nfrac = 0) \/ c - b > 7 THEN [ok |-> FALSE, val |-> 0]
        ELSE [ok |-> TRUE, val |-> IF IsNegative(s, a) THEN 0 - mag ELSE mag]

\* index of the first "," of s at or after i (Len(s) + 1 when there is none)
RECURSIVE FindComma(_, _)
FindComma(s, i) ==
    IF i > Len(s) THEN i
    ELSE IF s[i] = "," THEN i
    ELSE FindComma(s, i + 1)

\* the items successive getline(ss, item, ',') calls extract from the text of
\* s starting at i, until one fails: a call fails when nothing is left to
\* extract, not even a delimiter
RECURSIVE Items(_, _)
Items(s, i) ==
    IF i > Len(s) THEN <<>>
    ELSE LET j == FindComma(s, i)
         IN  <<SubSeq(s, i, j - 1)>> \o Items(s, j + 1)

\* if (item.size() >= 2 && item.front() == '"') item = item.substr(1, item.size()-2)
Unquote(item) ==
    IF Len(item) >= 2 /\ item[1] = "\"" THEN SubSeq(item, 2, Len(item) - 1)
    ELSE item
----------------------------------------------------------------------------
(* Leaderboard persistence *)

Quoted(str) == <<"\"">> \o str \o <<"\"">>

\* the line append_to_leaderboard writes for r (without its "\n")
CsvLine(r) ==
    Quoted(r.timestamp) \o <<",">> \o
    Quoted(r.playerName) \o <<",">> \o
    Quoted(r.difficulty) \o <<",">> \o
    to_string(r.attempts) \o <<",">> \o
    Fixed2(MsToHundredths(r.elapsedSeconds)) \o <<",">> \o
    to_string(r.secretNumber) \o <<",">> \o
    Fixed2(UnitsToHundredths(r.score))

\* append_to_leaderboard(r): the file after the call; f when the file could
\* not be opened for appending
append_to_leaderboard(f, opened, r) ==
    IF ~opened THEN f
    ELSE [exists |-> TRUE, lines |-> Append(f.lines, CsvLine(r))]

\* One pass of the body of read_leaderboard's loop over a non-empty line:
\* kind "skip" (a getline failed: continue), "throw" (stoi or stod threw) or
\* "record".  The numeric items are converted in the order the code reads
\* them, so a conversion throws before a later missing item is noticed.
ParseLine(line) ==
    LET it == Items(line, 1)
        n == Len(it)
        skip == [kind |-> "skip"]
        throw == [kind |-> "throw"]
    IN  IF n < 4 THEN skip
        ELSE IF ~Stoi(it[4]).ok THEN throw
        ELSE IF n < 5 THEN skip
        ELSE IF ~Stod(it[5]).ok THEN throw
        ELSE IF n < 6 THEN skip
        ELSE IF ~Stoi(it[6]).ok THEN throw
        ELSE IF n < 7 THEN skip
        ELSE IF ~Stod(it[7]).ok THEN throw
        ELSE [kind |-> "record",
              r |-> [timestamp |-> Unquote(it[1]),
                     playerName |-> Unquote(it[2]),
                     difficulty |-> Unquote(it[3]),
                     attempts |-> Stoi(it[4]).val,
                     elapsedSeconds |-> Stod(it[5]).val * 10,
                     secretNumber |-> Stoi(it[6]).val,
                     score |-> Stod(it[7]).val * 20]]

\* read_leaderboard's loop from line i on, out being the records so far:
\* [threw, out]; threw means an exception left the function
RECURSIVE ReadFrom(_, _, _, _)
ReadFrom(lines, i, out, limit) ==
    IF i > Len(lines) THEN [threw |-> FALSE, out |-> out]
    ELSE IF lines[i] = <<>> THEN ReadFrom(lines, i + 1, out, limit)
    ELSE LET p == ParseLine(lines[i])
         IN  IF p.kind = "throw" THEN [threw |-> TRUE, out |-> out]
             ELSE IF p.kind = "skip" THEN ReadFrom(lines, i + 1, out, limit)
             ELSE IF Len(out) + 1 >= limit THEN [threw |-> FALSE, out |-> Append(out, p.r)]
             ELSE ReadFrom(lines, i + 1, Append(out, p.r), limit)

\* read_leaderboard(limit) on file f
read_leaderboard(f, limit) ==
    IF ~f.exists THEN [threw |-> FALSE, out |-> <<>>]
    ELSE ReadFrom(f.lines, 1, <<>>, limit)

----------------------------------------------------------------------------
(* Score formula *)

\* floor(log2(x)) for x >= 1
RECURSIVE FloorLog2(_)
FloorLog2(x) == IF x < 2 THEN 0 ELSE 1 + FloorLog2(x \div 2)

RECURSIVE Pow2(_)
Pow2(k) == IF k = 0 THEN 1 ELSE 2 * Pow2(k - 1)

LogFracBits == 8
MantBits == 12

\* the k fractional bits of log2(m / 2^MantBits) for 2^MantBits <= m < 2^(MantBits+1),
\* by repeated squaring; the value is in units of 2^-k
RECURSIVE LogFrac(_, _)
LogFrac(m, k) ==
    IF k = 0 THEN 0
    ELSE LET sq == (m * m) \div Pow2(MantBits)
         IN  IF sq >= Pow2(MantBits + 1)
             THEN Pow2(k - 1) + LogFrac(sq \div 2, k - 1)
             ELSE LogFrac(sq, k - 1)

\* log2(x) for an integer x >= 1, in units of 2^-LogFracBits, rounded down
Log2Fixed(x) ==
    LET e == FloorLog2(x)
        m == IF e <= MantBits THEN x * Pow2(MantBits - e)
             ELSE x \div Pow2(e - MantBits)
    IN  e * Pow2(LogFracBits) + LogFrac(m, LogFracBits)

\* a score is counted in units of 1/ScoreUnit, the time penalty of one
\* millisecond (secondsElapsed / 2.0)
ScoreUnit == 2000

Max(a, b) == IF a >= b THEN a ELSE b

\* base - attemptPenalty - timePenalty of compute_score, in units of
\* 1/ScoreUnit, with secondsElapsed given in milliseconds:
\*   base           = 1000 / log2(rangeSize + 1)
\*   attemptPenalty = 20 * (attempts - 1)
\*   timePenalty    = secondsElapsed / 2     (one unit for each millisecond)
RawScore(att, ms, c) ==
    LET rangeSize == c.maxValue - c.minValue + 1
        base == (1000 * ScoreUnit * Pow2(LogFracBits)) \div Log2Fixed(rangeSize + 1)
        attemptPenalty == 20 * ScoreUnit * (att - 1)
        timePenalty == ms
    IN  base - attemptPenalty - timePenalty

\* 1.0 + max(0.0, frac - 0.5): the difference taken the wrong way round
BonusNumeratorReversed(att, c) == 2 * c.maxAttempts + Max(0, 2 * att - c.maxAttempts)

\* 1.0 + max(0.0, 0.5 - frac) with frac = attempts / maxAttempts, as a
\* fraction over 2 * maxAttempts
BonusNumerator(att, c) == 2 * c.maxAttempts + Max(0, c.maxAttempts - 2 * att)

\* compute_score(attempts, secondsElapsed, cfg)
compute_score(att, ms, c) ==
    LET score0 == RawScore(att, ms, c)
        score1 == IF c.maxAttempts > 0
                  THEN (score0 * BonusNumerator(att, c)) \div (2 * c.maxAttempts)
                  ELSE score0
    IN  IF score1 < 0 THEN 0 ELSE score1

----------------------------------------------------------------------------
(* Input: what stdin can deliver *)

Anonymous == <<"A", "n", "o", "n", "y", "m", "o", "u", "s">>

\* lines prompt_int rejects whatever the range: not an integer, or blank
BadIntLines == {<<"2", "x">>, <<" ">>}

LinesOf(ints) == {to_string(v) : v \in ints} \cup BadIntLines

\* lines typed at the difficulty menu
MenuLines == LinesOf({0, 1, 2, 3, 4, 5}) \cup {<<" ", "4", " ">>}

\* lines typed at the Custom minimum and maximum prompts
BoundLines == LinesOf({-1000001, -1, 1, 2, 1000000, 1000001})

\* lines typed at the Custom maximum-attempts prompt
AttemptLines == LinesOf({0, 1, 2})

\* lines typed at the guess prompt
GuessLines == LinesOf({-1, 0, 1, 2, 4, 20, 1000000})

\* numbers random_int(minv, maxv) can return: both ends of the range, and 0
\* and 2 when they lie in it
random_int(minv, maxv) == {v \in {minv, 0, 2, maxv} : minv <= v /\ v <= maxv}

\* lines typed at a yes/no prompt
YesNoLines == {<<"y">>, <<" ", "N">>, <<"x">>, <<>>}

\* lines typed at the name prompt
NameLines == {<<>>, Anonymous, <<"B", "o">>, <<"a", ",", "b">>, <<"q", "\"">>}

\* values the steady clock can show for the guess loop, in milliseconds
ElapsedChoices == {1234, 1500000}

\* what now_iso8601() returns: strftime "%Y-%m-%d %H:%M:%S" of the wall clock
WallClock == {[year |-> 2026, mon |-> 11, day |-> 5, hour |-> 9, min |-> 30, sec |-> 7]}

Pad2(n) == <<Digits[(n \div 10) + 1], Digits[(n % 10) + 1]>>

now_iso8601(t) ==
    NatToString(t.year) \o <<"-">> \o Pad2(t.mon) \o <<"-">> \o Pad2(t.day) \o <<" ">> \o
    Pad2(t.hour) \o <<":">> \o Pad2(t.min) \o <<":">> \o Pad2(t.sec)

\* index of the last character of s at or before i that is not white space (0 when none)
RECURSIVE LastNonSpace(_, _)
LastNonSpace(s, i) ==
    IF i < 1 THEN 0
    ELSE IF IsSpace(s[i]) THEN LastNonSpace(s, i - 1)
    ELSE i

\* The body of prompt_int's loop on one line: [ok, val].  The line is
\* trimmed, converted by stoll, and accepted when the whole of it was
\* consumed and the value lies in [minAllowed, maxAllowed].
prompt_int(line, minAllowed, maxAllowed) ==
    LET start == SkipSpace(line, 1)
        end == LastNonSpace(line, Len(line))
        trimmed == SubSeq(line, start, end)
        b == SkipSign(trimmed, 1)
        c == SkipDigits(trimmed, b)
        val == IF IsNegative(trimmed, 1) THEN 0 - DigitsValue(trimmed, b, c)
               ELSE DigitsValue(trimmed, b, c)
        reject == [ok |-> FALSE, val |-> 0]
    IN  IF start > Len(line) THEN reject
        ELSE IF c = b \/ c - b > 9 THEN reject
        ELSE IF c # Len(trimmed) + 1 THEN reject
        ELSE IF val < minAllowed \/ val > maxAllowed THEN reject
        ELSE [ok |-> TRUE, val |-> val]

ToLower(c) == IF c = "Y" THEN "y" ELSE IF c = "N" THEN "n" ELSE c

\* The body of prompt_yesno's loop on one line: "yes", "no" or "retry"
prompt_yesno(line) ==
    LET i == SkipSpace(line, 1)
    IN  IF line = <<>> THEN "retry"
        ELSE IF i > Len(line) THEN "retry"
        ELSE IF ToLower(line[i]) = "y" THEN "yes"
        ELSE IF ToLower(line[i]) = "n" THEN "no"
        ELSE "retry"

\* stdin can still deliver a line
CanRead == ~stdinEof /\ nread < MaxInputLines
----------------------------------------------------------------------------
(* Initial state *)

\* a default-constructed GameConfig
DefaultConfig ==
    [difficultyName |-> <<"C", "u", "s", "t", "o", "m">>,
     minValue |-> 1, maxValue |-> 100, maxAttempts |-> 0]

NoResult ==
    [playerName |-> <<>>, difficulty |-> <<>>, attempts |-> 0, elapsedSeconds |-> 0,
     secretNumber |-> 0, score |-> 0, timestamp |-> <<>>]

\* a record an earlier run of the program left in the file
OldResult ==
    [playerName |-> <<"A", "l">>,
     difficulty |-> <<"E", "a", "s", "y", " ", "(", "1", "-", "2", "0", ")">>,
     attempts |-> 3, elapsedSeconds |-> 12340, secretNumber |-> 7, score |-> 362000,
     timestamp |-> <<"2", "0", "2", "6", "-", "1", "1", "-", "0", "4", " ",
                     "0", "8", ":", "0", "0", ":", "0", "0">>]

\* contents leaderboard.csv can have when the program starts: no file, an
\* empty file, and a file with a line of too few items, an empty line and
\* one record
InitialFiles ==
    {[exists |-> FALSE, lines |-> <<>>],
     [exists |-> TRUE, lines |-> <<>>],
     [exists |-> TRUE, lines |-> <<<<"x", ",", "y">>, <<>>, CsvLine(OldResult)>>]}

Init ==
    /\ pc = "menu"
    /\ cfg = DefaultConfig
    /\ secret = 0
    /\ attempts = 0
    /\ lowHint = 0
    /\ highHint = 0
    /\ guess = 0
    /\ verdict = "none"
    /\ outcome = "none"
    /\ revealed = <<>>
    /\ submitted = 0
    /\ elapsed = 0
    /\ nameLine = <<>>
    /\ res = NoResult
    /\ file \in InitialFiles
    /\ warned = FALSE
    /\ entries = <<>>
    /\ stdinEof = FALSE
    /\ nread = 0
    /\ exitStatus = "running"

loopVars == <<secret, attempts, lowHint, highHint, guess, verdict, outcome,
              revealed, submitted, elapsed>>

sessionVars == <<loopVars, nameLine>>

storeVars == <<file, warned, entries>>

----------------------------------------------------------------------------
(* The end of the process *)

\* The process ends with the given status: its memory is gone, the file and
\* what was read from stdin stay.
ExitProcess(status) ==
    /\ pc' = "exited"
    /\ exitStatus' = status
    /\ cfg' = DefaultConfig
    /\ secret' = 0
    /\ attempts' = 0
    /\ lowHint' = 0
    /\ highHint' = 0
    /\ guess' = 0
    /\ verdict' = "none"
    /\ outcome' = "none"
    /\ revealed' = <<>>
    /\ submitted' = 0
    /\ elapsed' = 0
    /\ nameLine' = <<>>
    /\ res' = NoResult
    /\ entries' = <<>>
    /\ warned' = FALSE
    /\ UNCHANGED file

\* end of input at a prompt of prompt_int or prompt_yesno: exit(0)
ExitOnEof ==
    /\ stdinEof' = TRUE
    /\ nread' = nread
    /\ ExitProcess("0")

\* a line was read and rejected: the prompt is shown again
Retry == UNCHANGED vars

----------------------------------------------------------------------------
(* choose_difficulty *)

Preset(choice) ==
    IF choice = 1
    THEN [difficultyName |-> <<"E", "a", "s", "y">>,
          minValue |-> 1, maxValue |-> 20, maxAttempts |-> 0]
    ELSE IF choice = 2
    THEN [difficultyName |-> <<"M", "e", "d", "i", "u", "m">>,
          minValue |-> 1, maxValue |-> 100, maxAttempts |-> 10]
    ELSE [difficultyName |-> <<"H", "a", "r", "d">>,
          minValue |-> 1, maxValue |-> 1000, maxAttempts |-> 12]

\* prompt_int("Enter choice [1-4]: ", 1, 4) and the switch
ChooseDifficulty ==
    /\ pc = "menu"
    /\ \/ ExitOnEof
       \/ /\ CanRead
          /\ \E line \in MenuLines :
                LET in == prompt_int(line, 1, 4)
                IN  IF ~in.ok THEN Retry
                    ELSE /\ nread' = nread + 1
                         /\ IF in.val = 4
                            THEN /\ cfg' = DefaultConfig
                                 /\ pc' = "custom_min"
                            ELSE /\ cfg' = Preset(in.val)
                                 /\ pc' = "play"
                         /\ UNCHANGED <<sessionVars, res, storeVars, stdinEof, exitStatus>>

\* the range the minimum prompt accepts
MinPromptRange == [lo |-> CustomLo, hi |-> CustomHi]

\* the range the maximum prompt accepts once the minimum is minv
MaxPromptRange(minv) == [lo |-> minv + 1, hi |-> CustomHi]

\* cfg.minValue = prompt_int("", -1000000, 1000000)
CustomMin ==
    /\ pc = "custom_min"
    /\ \/ ExitOnEof
       \/ /\ CanRead
          /\ \E line \in BoundLines :
                LET in == prompt_int(line, MinPromptRange.lo, MinPromptRange.hi)
                IN  IF ~in.ok THEN Retry
                    ELSE /\ nread' = nread + 1
                         /\ cfg' = [cfg EXCEPT !.minValue = in.val]
                         /\ pc' = "custom_max"
                         /\ UNCHANGED <<sessionVars, res, storeVars, stdinEof, exitStatus>>

\* cfg.maxValue = prompt_int("", cfg.minValue+1, 1000000)
CustomMax ==
    /\ pc = "custom_max"
    /\ \/ ExitOnEof
       \/ /\ CanRead
          /\ \E line \in BoundLines :
                LET in == prompt_int(line, MaxPromptRange(cfg.minValue).lo,
                                     MaxPromptRange(cfg.minValue).hi)
                IN  IF ~in.ok THEN Retry
                    ELSE /\ nread' = nread + 1
                         /\ cfg' = [cfg EXCEPT !.maxValue = in.val]
                         /\ pc' = "custom_limit"
                         /\ UNCHANGED <<sessionVars, res, storeVars, stdinEof, exitStatus>>

\* prompt_yesno("Would you like to set a maximum attempts limit?")
CustomLimit ==
    /\ pc = "custom_limit"
    /\ \/ ExitOnEof
       \/ /\ CanRead
          /\ \E line \in YesNoLines :
                LET ans == prompt_yesno(line)
                IN  IF ans = "retry" THEN Retry
                    ELSE /\ nread' = nread + 1
                         /\ IF ans = "yes"
                            THEN /\ pc' = "custom_attempts"
                                 /\ cfg' = cfg
                            ELSE /\ pc' = "play"
                                 /\ cfg' = [cfg EXCEPT !.maxAttempts = 0]
                         /\ UNCHANGED <<sessionVars, res, storeVars, stdinEof, exitStatus>>

\* cfg.maxAttempts = prompt_int("Enter maximum attempts (>=1): ", 1, 1000000)
CustomAttempts ==
    /\ pc = "custom_attempts"
    /\ \/ ExitOnEof
       \/ /\ CanRead
          /\ \E line \in AttemptLines :
                LET in == prompt_int(line, 1, MaxAttemptsHi)
                IN  IF ~in.ok THEN Retry
                    ELSE /\ nread' = nread + 1
                         /\ cfg' = [cfg EXCEPT !.maxAttempts = in.val]
                         /\ pc' = "play"
                         /\ UNCHANGED <<sessionVars, res, storeVars, stdinEof, exitStatus>>
----------------------------------------------------------------------------
(* play_game *)

\* the start of play_game: the secret is drawn, the hints cover the range
StartGame ==
    /\ pc = "play"
    /\ secret' \in random_int(cfg.minValue, cfg.maxValue)
    /\ attempts' = 0
    /\ lowHint' = cfg.minValue
    /\ highHint' = cfg.maxValue
    /\ pc' = "guess"
    /\ UNCHANGED <<cfg, guess, verdict, outcome, revealed, submitted, elapsed,
                   nameLine, res, storeVars, stdinEof, nread, exitStatus>>

\* attempts++ moved above the give-up test
AttemptsAfterCountingGiveUp(g, att) == att + 1

\* attempts after the guess g: the give-up test comes before attempts++
AttemptsAfter(g, att) == IF g = 0 THEN att ELSE att + 1

\* highHint = guess - 1 without the comparison
NarrowHighUnguarded(g, hi) == g - 1

\* if (guess - 1 < highHint) highHint = guess - 1
NarrowHigh(g, hi) == IF g - 1 < hi THEN g - 1 ELSE hi

\* if (guess + 1 > lowHint) lowHint = guess + 1
NarrowLow(g, lo) == IF g + 1 > lo THEN g + 1 ELSE lo

\* attempts > cfg.maxAttempts in place of >=
AttemptsUsedUpOffByOne(att, c) == c.maxAttempts > 0 /\ att > c.maxAttempts

\* cfg.maxAttempts > 0 && attempts >= cfg.maxAttempts
AttemptsUsedUp(att, c) == c.maxAttempts > 0 /\ att >= c.maxAttempts

\* what one pass of the guess loop does with the guess g: "GaveUp",
\* "Correct", "AttemptsExhausted", or "none" when the loop goes on
GuessOutcome(g, sec, att, c) ==
    IF g = 0 THEN "GaveUp"
    ELSE IF g = sec THEN "Correct"
    ELSE IF AttemptsUsedUp(AttemptsAfter(g, att), c) THEN "AttemptsExhausted"
    ELSE "none"

\* one pass of the guess loop: prompt_int over the whole int range, then the
\* branches of the loop body; when the loop ends the clock is read
Guess ==
    /\ pc = "guess"
    /\ \/ ExitOnEof
       \/ /\ CanRead
          /\ \E line \in GuessLines :
                LET in == prompt_int(line, IntMin, IntMax)
                    g == in.val
                    out == GuessOutcome(g, secret, attempts, cfg)
                IN  IF ~in.ok THEN Retry
                    ELSE /\ nread' = nread + 1
                         /\ guess' = g
                         /\ submitted' = IF g # 0 THEN submitted + 1 ELSE submitted
                         /\ attempts' = AttemptsAfter(g, attempts)
                         /\ outcome' = out
                         /\ verdict' = IF g = 0 \/ g = secret THEN verdict
                                       ELSE IF g > secret THEN "high" ELSE "low"
                         /\ highHint' = IF g # 0 /\ g > secret THEN NarrowHigh(g, highHint)
                                        ELSE highHint
                         /\ lowHint' = IF g # 0 /\ g < secret THEN NarrowLow(g, lowHint)
                                       ELSE lowHint
                         /\ revealed' = IF out \in {"GaveUp", "AttemptsExhausted"}
                                        THEN <<secret>> ELSE revealed
                         /\ IF out = "none"
                            THEN /\ pc' = "guess"
                                 /\ elapsed' = elapsed
                            ELSE /\ pc' = "name"
                                 /\ elapsed' \in ElapsedChoices
                         /\ UNCHANGED <<cfg, secret, nameLine, res, storeVars, stdinEof,
                                        exitStatus>>

\* res.difficulty
DifficultyLabel(c) ==
    c.difficultyName \o <<" ", "(">> \o to_string(c.minValue) \o <<"-">> \o
    to_string(c.maxValue) \o <<")">>

\* the name play_game records for the line safe_getline returned
PlayerName(line) == IF line = <<>> THEN Anonymous ELSE line

\* if (name != "Anonymous") append_to_leaderboard(res)
ShouldAppend(name) == name # Anonymous

\* the Result play_game assembles
MakeResult(name, now) ==
    [playerName |-> name,
     difficulty |-> DifficultyLabel(cfg),
     attempts |-> attempts,
     elapsedSeconds |-> elapsed,
     secretNumber |-> secret,
     timestamp |-> now_iso8601(now),
     score |-> compute_score(Max(1, attempts), elapsed, cfg)]

\* the end of play_game on the line (or the empty string, at end of input)
\* safe_getline returns
FinishGame(line, now) ==
    LET r == MakeResult(PlayerName(line), now)
    IN  /\ nameLine' = line
        /\ res' = r
        /\ IF ShouldAppend(r.playerName)
           THEN \E opened \in BOOLEAN :
                   /\ file' = append_to_leaderboard(file, opened, r)
                   /\ warned' = ~opened
           ELSE UNCHANGED <<file, warned>>
        /\ pc' = "view"
        /\ UNCHANGED <<cfg, loopVars, entries, exitStatus>>

\* the name prompt: safe_getline does not test the stream, so at end of input
\* it returns the empty string and play_game goes on
EnterName ==
    /\ pc = "name"
    /\ \E now \in WallClock :
          \/ /\ stdinEof' = TRUE
             /\ nread' = nread
             /\ FinishGame(<<>>, now)
          \/ /\ CanRead
             /\ nread' = nread + 1
             /\ stdinEof' = stdinEof
             /\ \E line \in NameLines : FinishGame(line, now)
----------------------------------------------------------------------------
(* main *)

\* show_leaderboard(10): an exception that leaves read_leaderboard is caught
\* nowhere, so std::terminate ends the process
show_leaderboard(n) ==
    LET rd == read_leaderboard(file, n)
    IN  IF rd.threw
        THEN ExitProcess("SIGABRT")
        ELSE /\ pc' = "again"
             /\ entries' = rd.out
             /\ UNCHANGED <<cfg, sessionVars, res, file, warned, exitStatus>>

\* prompt_yesno("Would you like to view the recent leaderboard?")
ViewLeaderboard ==
    /\ pc = "view"
    /\ \/ ExitOnEof
       \/ /\ CanRead
          /\ \E line \in YesNoLines :
                LET ans == prompt_yesno(line)
                IN  IF ans = "retry" THEN Retry
                    ELSE /\ nread' = nread + 1
                         /\ IF ans = "yes"
                            THEN show_leaderboard(LeaderboardLimit)
                            ELSE /\ pc' = "again"
                                 /\ UNCHANGED <<cfg, sessionVars, res, storeVars, exitStatus>>
                         /\ stdinEof' = stdinEof

\* prompt_yesno("Play again?"): the next pass of main's loop starts with
\* fresh locals; "no" leaves the loop and main returns 0
PlayAgain ==
    /\ pc = "again"
    /\ \/ ExitOnEof
       \/ /\ CanRead
          /\ \E line \in YesNoLines :
                LET ans == prompt_yesno(line)
                IN  IF ans = "retry" THEN Retry
                    ELSE /\ nread' = nread + 1
                         /\ IF ans = "yes"
                            THEN /\ pc' = "menu"
                                 /\ cfg' = DefaultConfig
                                 /\ secret' = 0
                                 /\ attempts' = 0
                                 /\ lowHint' = 0
                                 /\ highHint' = 0
                                 /\ guess' = 0
                                 /\ verdict' = "none"
                                 /\ outcome' = "none"
                                 /\ revealed' = <<>>
                                 /\ submitted' = 0
                                 /\ elapsed' = 0
                                 /\ nameLine' = <<>>
                                 /\ res' = NoResult
                                 /\ entries' = <<>>
                                 /\ warned' = FALSE
                                 /\ exitStatus' = exitStatus
                                 /\ file' = file
                            ELSE ExitProcess("0")
                         /\ stdinEof' = stdinEof

Next ==
    \/ ChooseDifficulty
    \/ CustomMin
    \/ CustomMax
    \/ CustomLimit
    \/ CustomAttempts
    \/ StartGame
    \/ Guess
    \/ EnterName
    \/ ViewLeaderboard
    \/ PlayAgain

Spec == Init /\ [][Next]_vars
----------------------------------------------------------------------------
(* compute_score on its own: inputs drawn from bounded sets *)

MaxScoreAttempts == 8

\* configurations compute_score is applied to: the presets and Custom ones
ScoreConfigs ==
    {Preset(1), Preset(2), Preset(3)} \cup
    {[DefaultConfig EXCEPT !.minValue = r[1], !.maxValue = r[2], !.maxAttempts = m] :
        r \in {<<-1, 1>>, <<1, 2>>, <<-1000000, 1000000>>}, m \in {0, 1, 2, 3, 5}}

\* elapsed times compute_score is applied to, in milliseconds
ScoreTimes == {0, 1, 999, 1234, 60000, 400000, 454000, 455000, 1000000, 1261000, 1500000}

ScoreInit ==
    /\ pc = "score"
    /\ cfg \in ScoreConfigs
    /\ attempts \in 1..MaxScoreAttempts
    /\ elapsed \in ScoreTimes
    /\ res = [NoResult EXCEPT !.score = compute_score(attempts, elapsed, cfg)]
    /\ secret = 0
    /\ lowHint = 0
    /\ highHint = 0
    /\ guess = 0
    /\ verdict = "none"
    /\ outcome = "none"
    /\ revealed = <<>>
    /\ submitted = 0
    /\ nameLine = <<>>
    /\ file = [exists |-> FALSE, lines |-> <<>>]
    /\ warned = FALSE
    /\ entries = <<>>
    /\ stdinEof = FALSE
    /\ nread = 0
    /\ exitStatus = "running"

\* the score of the same game with one more attempt
ScoreMoreAttempts ==
    /\ pc = "score"
    /\ attempts < MaxScoreAttempts
    /\ attempts' = attempts + 1
    /\ res' = [res EXCEPT !.score = compute_score(attempts', elapsed, cfg)]
    /\ UNCHANGED <<pc, cfg, secret, lowHint, highHint, guess, verdict, outcome, revealed,
                   submitted, elapsed, nameLine, storeVars, stdinEof, nread, exitStatus>>

\* the score of the same game with more time elapsed
ScoreMoreTime ==
    /\ pc = "score"
    /\ \E t \in ScoreTimes :
          /\ t > elapsed
          /\ elapsed' = t
    /\ res' = [res EXCEPT !.score = compute_score(attempts, elapsed', cfg)]
    /\ UNCHANGED <<pc, cfg, secret, attempts, lowHint, highHint, guess, verdict, outcome,
                   revealed, submitted, nameLine, storeVars, stdinEof, nread, exitStatus>>

ScoreNext == ScoreMoreAttempts \/ ScoreMoreTime

ScoreSpec == ScoreInit /\ [][ScoreNext]_vars
----------------------------------------------------------------------------
(* Properties *)

\* the session's locals are alive: from the guess loop to the end of main's pass
InSession == pc \in {"guess", "name", "view", "again"}

\* the guess loop has ended
LoopEnded == pc \in {"name", "view", "again"}

\* a pass of the guess loop acted on an accepted line
GuessPass == pc = "guess" /\ nread' = nread + 1

\* C1: in the guess loop the secret always lies in the displayed range
\* [lowHint, highHint], so the range never inverts; a pass that answers "too
\* high" to g leaves the upper bound at most g - 1, one that answers "too low"
\* leaves the lower bound at least g + 1, and no pass widens the range, so
\* every later displayed bound keeps these limits.
C1_HintNarrowing ==
    /\ [](InSession => lowHint <= secret /\ secret <= highHint /\ lowHint <= highHint)
    /\ [][GuessPass =>
            /\ highHint' <= highHint
            /\ lowHint' >= lowHint
            /\ (guess' # 0 /\ guess' > secret => verdict' = "high" /\ highHint' <= guess' - 1)
            /\ (guess' # 0 /\ guess' < secret => verdict' = "low" /\ lowHint' >= guess' + 1)]_vars

\* a "too high" guess above the displayed range came after the range had
\* been narrowed from both sides
C1_Witness ==
    /\ pc = "guess"
    /\ verdict = "high"
    /\ guess > highHint + 1
    /\ highHint < cfg.maxValue
    /\ lowHint > cfg.minValue

\* C2: with a limit, the counter never exceeds maxAttempts and the loop never
\* goes on once it is reached; the session ends in AttemptsExhausted exactly
\* when the guess that reached the limit is not the secret, and the number
\* revealed is the secret; a correct guess on the last attempt ends in
\* Correct; without a limit AttemptsExhausted never happens.
C2_AttemptsExhausted ==
    /\ (InSession /\ cfg.maxAttempts > 0 => attempts <= cfg.maxAttempts)
    /\ (pc = "guess" /\ cfg.maxAttempts > 0 => attempts < cfg.maxAttempts)
    /\ (outcome = "AttemptsExhausted" =>
            /\ cfg.maxAttempts > 0
            /\ attempts = cfg.maxAttempts
            /\ guess # secret
            /\ revealed = <<secret>>)
    /\ (LoopEnded /\ cfg.maxAttempts > 0 /\ attempts = cfg.maxAttempts /\ guess # 0 =>
            IF guess = secret THEN outcome = "Correct" ELSE outcome = "AttemptsExhausted")
    /\ (cfg.maxAttempts = 0 => outcome # "AttemptsExhausted")

\* the limit was reached by a wrong guess
C2_Witness ==
    /\ pc = "name"
    /\ outcome = "AttemptsExhausted"
    /\ attempts = cfg.maxAttempts
    /\ revealed = <<secret>>

\* C8: the attempt counter equals the number of non-zero guesses submitted,
\* each accepted non-zero guess adding exactly one and a guess of 0 adding
\* none; a guess of 0 ends the session in GaveUp and reveals the secret.
C8_AttemptCount ==
    /\ [](InSession => attempts = submitted)
    /\ [](outcome = "GaveUp" => guess = 0 /\ revealed = <<secret>>)
    /\ [][GuessPass =>
            IF guess' = 0
            THEN attempts' = attempts /\ outcome' = "GaveUp" /\ pc' = "name"
            ELSE attempts' = attempts + 1 /\ outcome' # "GaveUp"]_vars

\* the player gave up after two counted guesses, one of them outside the
\* displayed range
C8_Witness ==
    /\ outcome = "GaveUp"
    /\ attempts = 2
    /\ revealed = <<secret>>
    /\ lowHint > cfg.minValue
    /\ highHint = cfg.maxValue
    /\ verdict = "high"

\* C7: compute_score is never negative, and with the configuration fixed it
\* does not grow when attempts grow or when the elapsed time grows.
C7_ScoreMonotone ==
    /\ [](res.score >= 0)
    /\ [][res'.score <= res.score]_vars

\* the bonus factor (above 1) was applied to a negative value, which the
\* clamp then set to 0
C7_Witness ==
    /\ pc = "score"
    /\ cfg.maxAttempts > 0
    /\ BonusNumerator(attempts, cfg) > 2 * cfg.maxAttempts
    /\ RawScore(attempts, elapsed, cfg) < 0
    /\ attempts > 1
    /\ res.score = 0

\* C3 as claimed: a blank name gives "Anonymous" and no record; every
\* non-blank name gives a Result with that name and, when the file could be
\* opened, exactly one more record in the store.
C3_EveryNonBlankNameAppended ==
    [][pc = "name" /\ pc' = "view" =>
        IF nameLine' = <<>>
        THEN res'.playerName = Anonymous /\ file' = file
        ELSE /\ res'.playerName = nameLine'
             /\ (~warned' => Len(file'.lines) = Len(file.lines) + 1)]_vars

\* the fields of the record a against those of the Result r, the two doubles
\* compared as written to two decimals
SameFields(a, r) ==
    /\ a.timestamp = r.timestamp
    /\ a.playerName = r.playerName
    /\ a.difficulty = r.difficulty
    /\ a.attempts = r.attempts
    /\ a.secretNumber = r.secretNumber
    /\ a.elapsedSeconds = MsToHundredths(r.elapsedSeconds) * 10
    /\ a.score = UnitsToHundredths(r.score) * 20

\* C4 as claimed: reading a missing or empty file returns nothing, and after
\* play_game appended its Result, read_leaderboard(1) returns exactly that
\* record.
C4_ReadReturnsAppended ==
    /\ (~file.exists \/ file.lines = <<>> =>
            read_leaderboard(file, LeaderboardLimit) = [threw |-> FALSE, out |-> <<>>])
    /\ (pc = "view" /\ ShouldAppend(res.playerName) /\ ~warned =>
            LET rd == read_leaderboard(file, 1)
            IN  /\ ~rd.threw
                /\ Len(rd.out) = 1
                /\ SameFields(rd.out[1], res))

\* C5 as claimed: once end of input was read at a prompt, the process has
\* exited with status 0.
C5_EofExitsAtOnce == stdinEof => pc = "exited" /\ exitStatus = "0"

\* C6 as claimed: the process ends only with exit status 0.
C6_OnlyExitZero == exitStatus \in {"running", "0"}

\* C9 as claimed: at every guess prompt some line makes the session end in
\* Correct.
C9_CorrectReachable ==
    pc = "guess" =>
        \E line \in GuessLines \cup {to_string(secret)} :
            LET in == prompt_int(line, IntMin, IntMax)
            IN  in.ok /\ GuessOutcome(in.val, secret, attempts, cfg) = "Correct"

\* C10 as claimed: at the Custom maximum prompt some integer is accepted.
C10_MaxPromptNotEmpty ==
    pc = "custom_max" =>
        \E v \in {cfg.minValue + 1, CustomHi} :
            prompt_int(to_string(v), MaxPromptRange(cfg.minValue).lo,
                       MaxPromptRange(cfg.minValue).hi).ok
====
